---- MODULE Spec2Model ----
(***************************************************************************)
(* Model of lightener.py (class LightenUp): the hex -> RGB -> HSL ->       *)
(* adjusted HSL -> RGB -> hex pipeline and the document walk of run().     *)
(*                                                                         *)
(* Python floats are IEEE-754 binary64.  They are modelled bit-exactly:    *)
(* a float is a record [sign, exp, man] whose value is                     *)
(* (-1)^sign * man * 2^exp, where man is a 53-bit natural held as a        *)
(* little-endian sequence of base-2^15 limbs (<<>> is zero).  Every        *)
(* arithmetic operator computes the exact result and rounds it to nearest, *)
(* ties to even, as the hardware does.  Subnormals, infinities and NaN do  *)
(* not arise for the value ranges of this program and are not modelled.    *)
(***************************************************************************)
EXTENDS Integers, Sequences, FiniteSets, TLC

----------------------------------------------------------------------------
(* Arbitrary-precision naturals: little-endian limb sequences, no leading  *)
(* (most significant) zero limb.  The operators work on all limbs at once  *)
(* (carries are looked ahead), not limb after limb.                        *)

LimbBits == 15

Base == 32768

\* 2^k for k in 0..LimbBits
Pow2(k) ==
    <<1, 2, 4, 8, 16, 32, 64, 128, 256, 512, 1024, 2048, 4096, 8192, 16384,
      32768>>[k + 1]

\* the sequence <<f[1], ..., f[n]>> of a function f on 1..n
Limbs(f, n) == SubSeq(f, 1, n)

MaxOf(S) == CHOOSE m \in S : \A j \in S : j <= m

\* the element of a one-element set.  The({F(x) : x \in {e}}) is F(e) with
\* e computed first, the way Python computes the right-hand side of an
\* assignment before it runs the next statement
The(S) == CHOOSE v \in S : TRUE

\* limb i of a, 0 beyond its ends
LimbAt(a, i) == IF 1 <= i /\ i <= Len(a) THEN a[i] ELSE 0

\* a without its most significant zero limbs
BNorm(a) == SubSeq(a, 1, MaxOf({0} \cup {i \in 1..Len(a) : a[i] # 0}))

\* the carry into limb i when the limb sums s (each below 2 * Base - 1) are
\* reduced: a limb below i overflows and every limb between passes it on
CarryIn(s, i) ==
    IF \E j \in 1..(i - 1) :
          s[j] >= Base /\ \A k \in (j + 1)..(i - 1) : s[k] = Base - 1
    THEN 1 ELSE 0

BAddSums(s) ==
    BNorm(Limbs([i \in 1..(Len(s) + 1) |->
                    (LimbAt(s, i) + CarryIn(s, i)) % Base], Len(s) + 1))

BAddLen(a, b, n) ==
    BAddSums(Limbs([i \in 1..n |-> LimbAt(a, i) + LimbAt(b, i)], n))

BAdd(a, b) == BAddLen(a, b, IF Len(a) >= Len(b) THEN Len(a) ELSE Len(b))

\* the borrow from limb i when the limb differences d are reduced
BorrowIn(d, i) ==
    IF \E j \in 1..(i - 1) :
          d[j] < 0 /\ \A k \in (j + 1)..(i - 1) : d[k] = 0
    THEN 1 ELSE 0

BSubDiffs(d) ==
    BNorm(Limbs([i \in 1..Len(d) |-> (d[i] - BorrowIn(d, i)) % Base],
                Len(d)))

\* a - b for a >= b
BSub(a, b) ==
    BSubDiffs(Limbs([i \in 1..Len(a) |-> a[i] - LimbAt(b, i)], Len(a)))

\* -1, 0, 1 as a[i] is below, equal to or above b[i]; 0 for i = 0
BCmpAt(a, b, i) ==
    IF i = 0 THEN 0 ELSE IF a[i] < b[i] THEN -1 ELSE 1

\* -1, 0, 1 as a < b, a = b, a > b: the most significant differing limb
\* decides
BCmp(a, b) ==
    IF Len(a) < Len(b) THEN -1
    ELSE IF Len(a) > Len(b) THEN 1
    ELSE BCmpAt(a, b, MaxOf({0} \cup {i \in 1..Len(a) : a[i] # b[i]}))

\* a * d for a small d (d <= Base): the low halves of the limb products
\* plus their high halves one limb up
BMulD(a, d) ==
    BAdd(Limbs([i \in 1..Len(a) |-> (a[i] * d) % Base], Len(a)),
         <<0>> \o Limbs([i \in 1..Len(a) |-> (a[i] * d) \div Base], Len(a)))

\* the limb product a[i] * b[k + 1 - i], which weighs Base^(k-1)
BMulLimb(a, b, i, k) == LimbAt(a, i) * LimbAt(b, k + 1 - i)

\* the sum of the low halves of the limb products of weight Base^(k-1) and
\* of the high halves of those of weight Base^(k-2), for a, b of at most
\* four limbs
BMulColumn(a, b, k) ==
    (BMulLimb(a, b, 1, k) % Base) + (BMulLimb(a, b, 2, k) % Base)
    + (BMulLimb(a, b, 3, k) % Base) + (BMulLimb(a, b, 4, k) % Base)
    + (BMulLimb(a, b, 1, k - 1) \div Base)
    + (BMulLimb(a, b, 2, k - 1) \div Base)
    + (BMulLimb(a, b, 3, k - 1) \div Base)
    + (BMulLimb(a, b, 4, k - 1) \div Base)

\* the number whose limbs are the low halves of the column sums c, plus
\* the number whose limbs are their high halves, one limb up
BMulColumns(c) ==
    BAdd(Limbs([k \in 1..Len(c) |-> c[k] % Base], Len(c)),
         <<0>> \o Limbs([k \in 1..Len(c) |-> c[k] \div Base], Len(c)))

\* a * b for a, b of at most four limbs (every mantissa is)
BMul(a, b) ==
    BMulColumns(Limbs([k \in 1..8 |-> BMulColumn(a, b, k)], 8))

\* a * 2^(LimbBits * w + r) for r < LimbBits
BShlLimbs(a, w, r) ==
    BNorm(Limbs([i \in 1..(Len(a) + w + 1) |->
                    (LimbAt(a, i - w) % Pow2(LimbBits - r)) * Pow2(r)
                    + (LimbAt(a, i - w - 1) \div Pow2(LimbBits - r))],
                Len(a) + w + 1))

\* a * 2^k
BShl(a, k) == BShlLimbs(a, k \div LimbBits, k % LimbBits)

\* floor(a / 2^(LimbBits * w + r)) for w < Len(a), r < LimbBits
BShrLimbs(a, w, r) ==
    BNorm(Limbs([i \in 1..(Len(a) - w) |->
                    (a[i + w] \div Pow2(r))
                    + (LimbAt(a, i + w + 1) % Pow2(r)) * Pow2(LimbBits - r)],
                Len(a) - w))

\* floor(a / 2^k)
BShr(a, k) ==
    IF k \div LimbBits >= Len(a) THEN <<>>
    ELSE BShrLimbs(a, k \div LimbBits, k % LimbBits)

\* TRUE iff a mod 2^k # 0
BLowNonzero(a, k) ==
    \/ \E i \in 1..Len(a) : i <= k \div LimbBits /\ a[i] # 0
    \/ /\ (k \div LimbBits) + 1 <= Len(a)
       /\ a[(k \div LimbBits) + 1] % Pow2(k % LimbBits) # 0

\* the number of bits of a limb n
SmallBitLen(n) == Cardinality({k \in 0..(LimbBits - 1) : Pow2(k) <= n})

BBitLen(a) ==
    IF a = <<>> THEN 0
    ELSE LimbBits * (Len(a) - 1) + SmallBitLen(a[Len(a)])

BIsOdd(a) == a # <<>> /\ a[1] % 2 = 1

\* the limbs of an int n >= 0
BFromInt(n) ==
    BNorm(<<n % Base, (n \div Base) % Base, n \div (Base * Base)>>)

\* the value of a, for a < 2^30
BToInt(a) ==
    IF a = <<>> THEN 0
    ELSE IF Len(a) = 1 THEN a[1]
    ELSE a[1] + Base * a[2]

----------------------------------------------------------------------------
(* IEEE-754 binary64 values and arithmetic (round to nearest, ties to even) *)

MantBits == 53

FZero == [sign |-> 0, exp |-> 0, man |-> <<>>]

\* the float [sign, e, q]; a mantissa q that reached 2^53 is renormalised
FRoundNorm(sign, e, q) ==
    IF BBitLen(q) > MantBits
    THEN [sign |-> sign, exp |-> e + 1, man |-> BShr(q, 1)]
    ELSE [sign |-> sign, exp |-> e, man |-> q]

\* rounds to nearest, ties to even: q is the mantissa, odd says that the
\* round bit after it is set, st that non-zero bits follow the round bit
FRoundBit(sign, e, q, odd, st) ==
    FRoundNorm(sign, e,
               IF odd /\ (st \/ BIsOdd(q)) THEN BAdd(q, <<1>>) ELSE q)

\* FRound for a non-zero n whose mantissa and round bit are q2
FRoundCut(sign, e, q2, st) ==
    FRoundBit(sign, e, BShr(q2, 1), BIsOdd(q2), st)

\* FRound for a non-zero n of L bits
FRoundLen(sign, n, e, sticky, L) ==
    IF L <= MantBits
    THEN [sign |-> sign, exp |-> e - (MantBits - L),
          man |-> BShl(n, MantBits - L)]
    ELSE FRoundCut(sign, e + (L - MantBits), BShr(n, L - MantBits - 1),
                   sticky \/ BLowNonzero(n, L - MantBits - 1))

\* the float nearest to (-1)^sign * n * 2^e; sticky says that the exact
\* value is slightly larger in magnitude than n * 2^e (by less than 2^e)
FRound(sign, n, e, sticky) ==
    IF n = <<>> THEN FZero
    ELSE FRoundLen(sign, n, e, sticky, BBitLen(n))

\* float(i) for a Python int i
FromInt(i) ==
    FRound(IF i < 0 THEN 1 ELSE 0, BFromInt(IF i < 0 THEN 0 - i ELSE i),
           0, FALSE)

FIsZero(x) == x.man = <<>>

FNeg(x) == IF FIsZero(x) THEN x ELSE [x EXCEPT !.sign = 1 - x.sign]

FAbs(x) == [x EXCEPT !.sign = 0]

\* -1, 0, 1 as |x| < |y|, |x| = |y|, |x| > |y| (both non-zero, normalised)
FCmpMag(x, y) ==
    IF x.exp < y.exp THEN -1
    ELSE IF x.exp > y.exp THEN 1
    ELSE BCmp(x.man, y.man)

\* -1, 0, 1 as x < y, x = y, x > y
FCmp(x, y) ==
    IF FIsZero(x) /\ FIsZero(y) THEN 0
    ELSE IF FIsZero(x) THEN (IF y.sign = 1 THEN 1 ELSE -1)
    ELSE IF FIsZero(y) THEN (IF x.sign = 1 THEN -1 ELSE 1)
    ELSE IF x.sign # y.sign THEN (IF x.sign = 1 THEN -1 ELSE 1)
    ELSE IF x.sign = 0 THEN FCmpMag(x, y)
    ELSE 0 - FCmpMag(x, y)

FLt(x, y) == FCmp(x, y) < 0

FLe(x, y) == FCmp(x, y) <= 0

FGt(x, y) == FCmp(x, y) > 0

FGe(x, y) == FCmp(x, y) >= 0

FEq(x, y) == FCmp(x, y) = 0

\* the widest exponent gap that is aligned exactly; beyond it the smaller
\* operand only decides the rounding direction
AlignMax == 64

\* (-1)^sx * nx * 2^e + (-1)^sy * ny * 2^e, with c = BCmp(nx, ny)
FAddSigned(sx, sy, nx, ny, e, c) ==
    FRound(IF sx = sy \/ c > 0 THEN sx ELSE IF c < 0 THEN sy ELSE 0,
           IF sx = sy THEN BAdd(nx, ny)
           ELSE IF c > 0 THEN BSub(nx, ny) ELSE BSub(ny, nx),
           e, FALSE)

FAddAligned(sx, sy, nx, ny, e) ==
    FAddSigned(sx, sy, nx, ny, e, BCmp(nx, ny))

\* x + y for non-zero x, y with x.exp >= y.exp
FAddOrdered(x, y) ==
    LET d == x.exp - y.exp
    IN  FAddAligned(x.sign, y.sign,
                    BShl(x.man, IF d > AlignMax THEN AlignMax ELSE d),
                    IF d > AlignMax THEN <<1>> ELSE y.man,
                    IF d > AlignMax THEN x.exp - AlignMax ELSE y.exp)

FAdd(x, y) ==
    IF FIsZero(x) THEN y
    ELSE IF FIsZero(y) THEN x
    ELSE FAddOrdered(IF x.exp >= y.exp THEN x ELSE y,
                     IF x.exp >= y.exp THEN y ELSE x)

FSub(x, y) == FAdd(x, FNeg(y))

FMul(x, y) ==
    IF FIsZero(x) \/ FIsZero(y) THEN FZero
    ELSE FRound((x.sign + y.sign) % 2, BMul(x.man, y.man),
                x.exp + y.exp, FALSE)

\* the long division produces the quotient in hexadecimal digits: one
\* integer digit and DivFracDigits fraction digits, 56 fraction bits, three
\* more than the mantissa needs
DivFracDigits == 14

\* the hexadecimal digit floor(rem / d) for rem < 16 * d, from the
\* multiples ds = <<d, 2d, ..., 15d>>
DivDigit(rem, ds) == Cardinality({k \in 1..15 : BCmp(ds[k], rem) <= 0})

\* one step of the long division, with its quotient digit t
DivStep(st, ds, t) ==
    [q   |-> BAdd(BShl(st.q, 4), BFromInt(t)),
     rem |-> BShl(IF t = 0 THEN st.rem ELSE BSub(st.rem, ds[t]), 4),
     i   |-> st.i - 1]

\* long division: st.i more quotient digits of st.rem / d
RECURSIVE DivLoop(_, _)
DivLoop(st, ds) ==
    IF st.i = 0 THEN st
    ELSE DivLoop(DivStep(st, ds, DivDigit(st.rem, ds)), ds)

\* x / y from the quotient and remainder r of the mantissas
FDivRound(x, y, r) ==
    FRound((x.sign + y.sign) % 2, r.q,
           x.exp - y.exp - 4 * DivFracDigits, r.rem # <<>>)

\* x / y for y # 0
FDiv(x, y) ==
    IF FIsZero(x) THEN FZero
    ELSE The({FDivRound(x, y, DivLoop([q |-> <<>>, rem |-> x.man,
                                       i |-> DivFracDigits + 1], ds)) :
                 ds \in {Limbs([k \in 1..15 |-> BMulD(y.man, k)], 15)}})

\* int(math.ceil(x)) for |x| < 2^30
FCeil(x) ==
    IF FIsZero(x) THEN 0
    ELSE IF x.exp >= 0 THEN
        (IF x.sign = 0 THEN 1 ELSE -1) * BToInt(BShl(x.man, x.exp))
    ELSE LET ip == BToInt(BShr(x.man, 0 - x.exp))
             fr == BLowNonzero(x.man, 0 - x.exp)
         IN  IF x.sign = 1 THEN 0 - ip
             ELSE IF fr THEN ip + 1 ELSE ip

\* x % m for floats x in [-m, m), m > 0: Python gives fmod(x, m), which is
\* x itself, plus m when that is negative
FModPos(x, m) ==
    IF (~FIsZero(x)) /\ x.sign = 1 THEN FAdd(x, m) ELSE x

----------------------------------------------------------------------------
(* Python values: strings are sequences of one-character strings, an       *)
(* optional int (argparse's None or int) is <<>> or <<i>>.                 *)

None == <<>>

Some(i) == <<i>>

HexDigits == <<"0", "1", "2", "3", "4", "5", "6", "7",
               "8", "9", "a", "b", "c", "d", "e", "f">>

IsHexDigit(c) == \E k \in 1..Len(HexDigits) : HexDigits[k] = c

HexVal(c) == (CHOOSE k \in 1..Len(HexDigits) : HexDigits[k] = c) - 1

\* value[i:j] (0-based, clipped to the string as Python slices are)
Slice(str, i, j) == SubSeq(str, i + 1, IF j > Len(str) THEN Len(str) ELSE j)

\* the exception int() raises, in place of a result
ValueError == <<"ValueError">>

\* int(str, 16) succeeds: over the alphabet of this model, for a non-empty
\* string of hex digits
CanParseHex(str) ==
    str # <<>> /\ \A k \in 1..Len(str) : IsHexDigit(str[k])

\* int(str, 16) for a string of one or two hex digits
ParseHex(str) ==
    IF Len(str) = 1 THEN HexVal(str[1])
    ELSE 16 * HexVal(str[1]) + HexVal(str[2])

\* re.match('[0-9a-f]{6}', value): six hex digits at the start
ReMatch(str) ==
    Len(str) >= 6 /\ \A k \in 1..6 : IsHexDigit(str[k])

\* the digits of hex(n) for n >= 0, without the "0x"
RECURSIVE HexDigitsOf(_)
HexDigitsOf(n) ==
    IF n < 16 THEN <<HexDigits[n + 1]>>
    ELSE HexDigitsOf(n \div 16) \o <<HexDigits[(n % 16) + 1]>>

\* hex(n)[2:]: "0x1f"[2:] = "1f" and "-0x1f"[2:] = "x1f"
HexTail(n) == IF n < 0 THEN <<"x">> \o HexDigitsOf(0 - n) ELSE HexDigitsOf(n)

\* str.zfill(2) of a string that does not start with a sign
ZFill2(str) ==
    IF Len(str) >= 2 THEN str
    ELSE IF Len(str) = 1 THEN <<"0">> \o str
    ELSE <<"0", "0">>

----------------------------------------------------------------------------
(* The float constants of the program, written out: a small integer n of   *)
(* L bits is n * 2^(53-L) * 2^(L-53), and the fourth limb weighs 2^45.     *)

F1 == [sign |-> 0, exp |-> -52, man |-> <<0, 0, 0, 128>>]

F2 == [sign |-> 0, exp |-> -51, man |-> <<0, 0, 0, 128>>]

F3 == [sign |-> 0, exp |-> -51, man |-> <<0, 0, 0, 192>>]

F4 == [sign |-> 0, exp |-> -50, man |-> <<0, 0, 0, 128>>]

F6 == [sign |-> 0, exp |-> -50, man |-> <<0, 0, 0, 192>>]

F60 == [sign |-> 0, exp |-> -47, man |-> <<0, 0, 0, 240>>]

F100 == [sign |-> 0, exp |-> -46, man |-> <<0, 0, 0, 200>>]

F255 == [sign |-> 0, exp |-> -45, man |-> <<0, 0, 0, 255>>]

F360 == [sign |-> 0, exp |-> -44, man |-> <<0, 0, 0, 180>>]

\* the literal 0.5
F0_5 == [sign |-> 0, exp |-> -53, man |-> <<0, 0, 0, 128>>]

\* the literal 0.333: the double nearest to it, 5998794703657501 * 2^-54
F0_333 == [sign |-> 0, exp |-> -54, man |-> <<23069, 30408, 16252, 170>>]

\* the literal 0.666: the double nearest to it, 5998794703657501 * 2^-53
F0_666 == [sign |-> 0, exp |-> -53, man |-> <<23069, 30408, 16252, 170>>]

FMax(x, y) == IF FLt(x, y) THEN y ELSE x

FMin(x, y) == IF FLt(y, x) THEN y ELSE x

\* <<f[1], f[2], f[3]>>
Tuple3(f) == <<f[1], f[2], f[3]>>

----------------------------------------------------------------------------
(* The colour arithmetic of LightenUp.  A local variable of the Python     *)
(* code is a parameter of a helper operator that stands for the statements *)
(* after its assignment, and The({...}) binds it to its computed value.    *)

\* _inc_value as it would be if it clamped to the nearest bound
IncResultClamped(value, new_val) ==
    IF FLt(new_val, FZero) THEN FZero
    ELSE IF FGt(new_val, F100) THEN F100
    ELSE new_val

\* _inc_value, once new_val = value + inc is computed
IncResult(value, new_val) ==
    IF FGe(new_val, FZero) /\ FLe(new_val, F100) THEN new_val ELSE value

_inc_value(value, inc) ==
    IF inc = None THEN value
    ELSE The({IncResult(value, new_val) :
                 new_val \in {FAdd(value, FromInt(inc[1]))}})

\* alter as it would be if the hue went through _inc_value as well
alterHueToo(value, saturation, lightness) ==
    <<_inc_value(value[1], saturation), _inc_value(value[2], saturation),
      _inc_value(value[3], lightness)>>

alter(value, saturation, lightness) ==
    <<value[1], _inc_value(value[2], saturation),
      _inc_value(value[3], lightness)>>

\* the hue of _rgb_to_hsl: the if / elif chain on cmax and delta
RgbHue(r, g, b, cmax, delta) ==
    IF FEq(cmax, r) /\ FGt(delta, FZero)
    THEN FMul(F60, FModPos(FDiv(FSub(g, b), delta), F6))
    ELSE IF FEq(cmax, g) /\ FGt(delta, FZero)
    THEN FMul(F60, FAdd(FDiv(FSub(b, r), delta), F2))
    ELSE IF FEq(cmax, b) /\ FGt(delta, FZero)
    THEN FMul(F60, FAdd(FDiv(FSub(r, g), delta), F4))
    ELSE FZero

\* the saturation of _rgb_to_hsl, before it is scaled
RgbSaturation(delta, l) ==
    IF FEq(delta, FZero) THEN FZero
    ELSE FDiv(delta, FSub(F1, FAbs(FSub(FMul(F2, l), F1))))

\* _rgb_to_hsl as it would be without "l = l * 100.0"
RgbToHslUnscaledL(r, g, b, cmax, delta, l) ==
    <<RgbHue(r, g, b, cmax, delta), FMul(RgbSaturation(delta, l), F100), l>>

\* _rgb_to_hsl, once delta and the unscaled lightness l are computed
RgbToHslScaled(r, g, b, cmax, delta, l) ==
    <<RgbHue(r, g, b, cmax, delta), FMul(RgbSaturation(delta, l), F100),
      FMul(l, F100)>>

\* _rgb_to_hsl, once cmax and cmin are computed
RgbToHslExtremes(r, g, b, cmax, cmin) ==
    The({RgbToHslScaled(r, g, b, cmax, delta, l) :
            delta \in {FSub(cmax, cmin)},
            l \in {FDiv(FAdd(cmax, cmin), F2)}})

\* _rgb_to_hsl, once the channels are scaled to [0, 1]
RgbToHslUnit(r, g, b) ==
    The({RgbToHslExtremes(r, g, b, cmax, cmin) :
            cmax \in {FMax(FMax(r, g), b)},
            cmin \in {FMin(FMin(r, g), b)}})

_rgb_to_hsl(r, g, b) ==
    The({RgbToHslUnit(var_r, var_g, var_b) :
            var_r \in {FDiv(FromInt(r), F255)},
            var_g \in {FDiv(FromInt(g), F255)},
            var_b \in {FDiv(FromInt(b), F255)}})

hex_to_hsl(value) ==
    IF /\ CanParseHex(Slice(value, 0, 2))
       /\ CanParseHex(Slice(value, 2, 4))
       /\ CanParseHex(Slice(value, 4, 6))
    THEN _rgb_to_hsl(ParseHex(Slice(value, 0, 2)),
                     ParseHex(Slice(value, 2, 4)),
                     ParseHex(Slice(value, 4, 6)))
    ELSE ValueError

\* _hue_to_rgb: "if vH < 0: vH += 1"
HueWrapLow(vH) == IF FLt(vH, FZero) THEN FAdd(vH, F1) ELSE vH

\* _hue_to_rgb: "if vH > 1: vH -= 1"
HueWrapHigh(vH) == IF FGt(vH, F1) THEN FSub(vH, F1) ELSE vH

\* _hue_to_rgb: the four returns, for the wrapped vH
HueReturn(v1, v2, vH) ==
    IF FLt(FMul(F6, vH), F1)
    THEN FAdd(v2, FMul(FMul(FSub(v1, v2), F6), vH))
    ELSE IF FLt(FMul(F2, vH), F1) THEN v1
    ELSE IF FLt(FMul(F3, vH), F2)
    THEN FAdd(v2, FMul(FMul(FSub(v1, v2), FSub(F0_666, vH)), F6))
    ELSE v2

_hue_to_rgb(v1, v2, vH) ==
    The({HueReturn(v1, v2, wrapped) :
            wrapped \in {HueWrapHigh(HueWrapLow(vH))}})

\* "s is 0" compares the identity of the float object s = float(s) / 100
\* with the int object 0: it is False for every s, the float 0.0 included
SIsIntZero(s) == FALSE

\* the third argument of the _hue_to_rgb call of channel k (r, g, b)
HueOfChannel(h, k) ==
    IF k = 1 THEN FAdd(h, F0_333)
    ELSE IF k = 2 THEN h
    ELSE FSub(h, F0_333)

\* _hsl_to_rgb's else branch, once var_1 and var_2 are computed
HslToRgbChannels(h, var_1, var_2) ==
    Tuple3([k \in 1..3 |->
              FCeil(FMul(F255,
                         _hue_to_rgb(var_1, var_2, HueOfChannel(h, k))))])

\* var_1 of _hsl_to_rgb
HslVar1(s, l) ==
    IF FLt(l, F0_5) THEN FMul(l, FAdd(F1, s))
    ELSE FSub(FAdd(l, s), FMul(l, s))

\* _hsl_to_rgb's else branch as it would be with "var_2 = l - var_1"
HslToRgbVar1NoDouble(h, l, var_1) ==
    The({HslToRgbChannels(h, var_1, var_2) : var_2 \in {FSub(l, var_1)}})

\* _hsl_to_rgb's else branch, once var_1 is computed
HslToRgbVar1(h, l, var_1) ==
    The({HslToRgbChannels(h, var_1, var_2) :
            var_2 \in {FSub(FMul(F2, l), var_1)}})

\* _hsl_to_rgb, once h, s and l are scaled to [0, 1]
HslToRgbUnit(h, s, l) ==
    IF SIsIntZero(s)
    THEN Tuple3([k \in 1..3 |-> FCeil(FMul(l, F255))])
    ELSE The({HslToRgbVar1(h, l, var_1) : var_1 \in {HslVar1(s, l)}})

_hsl_to_rgb(h, s, l) ==
    The({HslToRgbUnit(var_h, var_s, var_l) :
            var_h \in {FDiv(h, F360)},
            var_s \in {FDiv(s, F100)},
            var_l \in {FDiv(l, F100)}})

\* the hex string built from the channels r, g, b
RgbToStr(rgb) ==
    ZFill2(HexTail(rgb[1])) \o ZFill2(HexTail(rgb[2]))
        \o ZFill2(HexTail(rgb[3]))

hsl_to_hex(value) == RgbToStr(_hsl_to_rgb(value[1], value[2], value[3]))

----------------------------------------------------------------------------
(* State                                                                   *)

VARIABLES
    pc,             \* position of the running program
    saturation,     \* args.saturation: None or an int
    lightness,      \* args.lightness: None or an int
    options,        \* the <option> elements of the tree, in document order
    hasAttrs,       \* the root has an <attributes> child
    docName,        \* the name attribute of the root
    idx,            \* position of the running for loop in its iteration
    outFile,        \* what tree.write has written, <<>> before
    orig,           \* the elements as parsed (history)
    calls,          \* calls[i]: conversions made for element i (history)
    value,          \* handleOption's / hex_to_hsl's value
    hsl_value,      \* handleOption's hsl_value: hex_to_hsl's result
    alter_in,       \* the value the last alter call was given
    altered_value,  \* handleOption's altered_value: alter's result
    rgb_out,        \* hsl_to_hex's r, g, b as _hsl_to_rgb returned them
    new_value,      \* handleOption's new_value: hsl_to_hex's result
    nAlter          \* alter calls made on the current value (SpecCore)

vars == <<pc, saturation, lightness, options, hasAttrs, docName, idx,
          outFile, orig, calls, value, hsl_value, alter_in, altered_value,
          rgb_out, new_value, nAlter>>

docVars == <<options, hasAttrs, docName, idx, outFile, orig, calls>>

----------------------------------------------------------------------------
(* SpecCore: the conversion functions applied one by one to bounded inputs *)

\* alter calls chained on one HSL value
MaxAlter == 2

\* hsl_to_hex is applied to values that went through at most this many
\* alter calls (handleOption makes one)
MaxAlterBeforeHex == 1

CoreInputs ==
    { <<"f", "f", "0", "0", "0", "0">>,
      <<"0", "0", "f", "f", "0", "0">>,
      <<"8", "0", "8", "0", "8", "0">>,
      <<"1", "9", "1", "9", "1", "9">>,
      <<"0", "f", "0", "f", "0", "f">>,
      <<"0", "0", "0", "0", "0", "0">>,
      <<"f", "f", "f", "f", "f", "f">>,
      <<"2", "a", "a", "1", "9", "8">>,
      <<"0", "9", "f", "f", "f", "f">>,
      <<"f", "b", "f", "b", "f", "f">>,
      <<"f", "f", "0", "a", "f", "b">>,
      <<"0", "0", "2", "b", "3", "6">>,
      <<"2", "a", "a", "1", "9", "8", "f", "f">>,
      <<"0", "0", "g", "0", "0", "0">>,
      <<"a", "b", "c">> }

SatArgs == {None, Some(20), Some(-100)}

LightArgs == {None, Some(50), Some(-20)}

InitCore ==
    /\ pc = "core_start"
    /\ value \in CoreInputs
    /\ saturation = None
    /\ lightness = None
    /\ options = <<>>
    /\ hasAttrs = FALSE
    /\ docName = "Solarized Dark"
    /\ idx = 0
    /\ outFile = <<>>
    /\ orig = <<>>
    /\ calls = <<>>
    /\ hsl_value = <<>>
    /\ alter_in = <<>>
    /\ altered_value = <<>>
    /\ rgb_out = <<>>
    /\ new_value = <<>>
    /\ nAlter = 0

\* hsl_value = self.hex_to_hsl(value); int() raises ValueError for a
\* channel that is no hex number
CoreHexToHsl ==
    /\ pc = "core_start"
    /\ hsl_value' = hex_to_hsl(value)
    /\ altered_value' = hsl_value'
    /\ pc' = IF hsl_value' = ValueError THEN "core_error" ELSE "core_hsl"
    /\ UNCHANGED <<saturation, lightness, value, alter_in, rgb_out,
                   new_value, nAlter>>
    /\ UNCHANGED docVars

\* altered_value = self.alter(altered_value, s, l)
CoreAlter ==
    /\ pc = "core_hsl"
    /\ nAlter < MaxAlter
    /\ \E s \in SatArgs, l \in LightArgs :
          /\ saturation' = s
          /\ lightness' = l
          /\ altered_value' = alter(altered_value, s, l)
    /\ alter_in' = altered_value
    /\ nAlter' = nAlter + 1
    /\ UNCHANGED <<pc, value, hsl_value, rgb_out, new_value>>
    /\ UNCHANGED docVars

\* new_value = self.hsl_to_hex(altered_value), its r, g, b kept
CoreHslToHex ==
    /\ pc = "core_hsl"
    /\ nAlter <= MaxAlterBeforeHex
    /\ rgb_out' = _hsl_to_rgb(altered_value[1], altered_value[2],
                              altered_value[3])
    /\ new_value' = hsl_to_hex(altered_value)
    /\ pc' = "core_done"
    /\ UNCHANGED <<saturation, lightness, value, hsl_value, alter_in,
                   altered_value, nAlter>>
    /\ UNCHANGED docVars

NextCore == CoreHexToHsl \/ CoreAlter \/ CoreHslToHex

SpecCore == InitCore /\ [][NextCore]_vars

----------------------------------------------------------------------------
(* Spec: main() and run() over a parsed document.  The document is the     *)
(* sequence of its <option> elements in document order; inAttrs says that  *)
(* the element lies under the root's <attributes> child.                   *)

\* <option> elements of a document
MaxOptions == 2

DocValues ==
    { <<"2", "a", "a", "1", "9", "8">>,
      <<"2", "a", "a", "1", "9", "8", "f", "f">>,
      <<"0", "0", "g", "0", "0", "0">>,
      <<"a", "b", "c">> }

\* attributes of an <option>: a name, with or without a value
Attribs ==
    {[name |-> "opt"]} \cup {[name |-> "opt", value |-> v] : v \in DocValues}

Elements == [attrib : Attribs, inAttrs : BOOLEAN]

\* Element.get(key): None when the attribute is missing
Get(attrib, key) == IF key \in DOMAIN attrib THEN attrib[key] ELSE None

\* the j-th element under <attributes>, as attrs.iter('option') yields it
NthAttr(j) ==
    CHOOSE i \in 1..Len(options) :
        /\ options[i].inAttrs
        /\ Cardinality({k \in 1..i : options[k].inAttrs}) = j

NumAttrs == Cardinality({i \in 1..Len(options) : options[i].inAttrs})

Init ==
    /\ pc = "main"
    /\ saturation \in {None, Some(20)}
    /\ lightness \in {None, Some(-20)}
    /\ \E n \in 0..MaxOptions : options \in [1..n -> Elements]
    /\ hasAttrs \in BOOLEAN
    /\ (\E i \in 1..Len(options) : options[i].inAttrs) => hasAttrs
    /\ docName = "Solarized Dark"
    /\ idx = 0
    /\ outFile = <<>>
    /\ orig = options
    /\ calls = [i \in 1..Len(options) |-> 0]
    /\ value = <<>>
    /\ hsl_value = <<>>
    /\ alter_in = <<>>
    /\ altered_value = <<>>
    /\ rgb_out = <<>>
    /\ new_value = <<>>
    /\ nAlter = 0

\* main() without -s and -l: prints the help, runs nothing
MainHelp ==
    /\ pc = "main"
    /\ saturation = None /\ lightness = None
    /\ pc' = "help"
    /\ UNCHANGED <<saturation, lightness, value, hsl_value, alter_in,
                   altered_value, rgb_out, new_value, nAlter>>
    /\ UNCHANGED docVars

\* main() into run(): the tree is parsed, the root renamed, the first loop
\* begins
MainRun ==
    /\ pc = "main"
    /\ saturation # None \/ lightness # None
    /\ docName' = "Solarized Dark - Modified"
    /\ idx' = 1
    /\ pc' = "iter_root"
    /\ UNCHANGED <<saturation, lightness, options, hasAttrs, outFile, orig,
                   calls, value, hsl_value, alter_in, altered_value,
                   rgb_out, new_value, nAlter>>

\* self.handleOption(option, saturation, lightness) for element i
handleOption(i) ==
    /\ value' = Get(options[i].attrib, "value")
    /\ IF value' # None /\ ReMatch(value')
       THEN /\ hsl_value' = hex_to_hsl(value')
            /\ alter_in' = hsl_value'
            /\ altered_value' = alter(hsl_value', saturation, lightness)
            /\ rgb_out' = _hsl_to_rgb(altered_value'[1], altered_value'[2],
                                      altered_value'[3])
            /\ new_value' = hsl_to_hex(altered_value')
            /\ options' = [options EXCEPT ![i].attrib.value = new_value']
            /\ calls' = [calls EXCEPT ![i] = @ + 1]
       ELSE UNCHANGED <<hsl_value, alter_in, altered_value, rgb_out,
                        new_value, options, calls>>

\* one iteration of "for option in root.iter('option')": every <option>
\* of the tree, those under <attributes> included
IterRoot ==
    /\ pc = "iter_root"
    /\ idx <= Len(options)
    /\ handleOption(idx)
    /\ idx' = idx + 1
    /\ UNCHANGED <<pc, saturation, lightness, hasAttrs, docName, outFile,
                   orig, nAlter>>

\* attrs = root.find('attributes'); attrs.iter raises AttributeError when
\* there is no such child (attrs is None)
FindAttrs ==
    /\ pc = "iter_root"
    /\ idx > Len(options)
    /\ pc' = IF hasAttrs THEN "iter_attrs" ELSE "crashed"
    /\ idx' = 1
    /\ UNCHANGED <<saturation, lightness, options, hasAttrs, docName,
                   outFile, orig, calls, value, hsl_value, alter_in,
                   altered_value, rgb_out, new_value, nAlter>>

\* one iteration of "for option in attrs.iter('option')"
IterAttrs ==
    /\ pc = "iter_attrs"
    /\ idx <= NumAttrs
    /\ handleOption(NthAttr(idx))
    /\ idx' = idx + 1
    /\ UNCHANGED <<pc, saturation, lightness, hasAttrs, docName, outFile,
                   orig, nAlter>>

\* tree.write('Solarized Dark Modified.icls', ...)
Write ==
    /\ pc = "iter_attrs"
    /\ idx > NumAttrs
    /\ outFile' = <<[name |-> docName, options |-> options]>>
    /\ pc' = "done"
    /\ UNCHANGED <<saturation, lightness, options, hasAttrs, docName, idx,
                   orig, calls, value, hsl_value, alter_in, altered_value,
                   rgb_out, new_value, nAlter>>

Next == MainHelp \/ MainRun \/ IterRoot \/ FindAttrs \/ IterAttrs \/ Write

Spec == Init /\ [][Next]_vars

----------------------------------------------------------------------------
(* The claims.  Those about the conversion functions are stated over       *)
(* SpecCore, those about the document walk over Spec.                      *)

InRange100(x) == FGe(x, FZero) /\ FLe(x, F100)

HueInRange(h) == FGe(h, FZero) /\ FLt(h, F360)

\* value is six hex digits and nothing else
ExactlySixHex(str) == Len(str) = 6 /\ ReMatch(str)

\* channel k (1, 2, 3) of a hex string, as hex_to_hsl reads it
ChannelOf(str, k) == ParseHex(Slice(str, 2 * k - 2, 2 * k))

CanDecode(str) ==
    \A k \in 1..3 : CanParseHex(Slice(str, 2 * k - 2, 2 * k))

\* the input of SpecCore has been converted to HSL
CoreConverted == pc \in {"core_hsl", "core_done"}

\* what C1 says of one channel: v before, out after, d the delta
C1_Channel(v, d, out) ==
    IF d = None THEN out = v
    ELSE IF InRange100(FAdd(v, FromInt(d[1])))
    THEN out = FAdd(v, FromInt(d[1]))
    ELSE out = v

\* C1: after every alter call, each of saturation and lightness is the old
\* value when its delta is absent, old + delta when that lies in [0, 100]
\* (bounds included), and the old value itself (never a clamped 0 or 100)
\* when old + delta is outside; the two channels are decided separately,
\* and with both deltas absent the result is the input.  The sum is
\* Python's float sum.
C1_IncValue ==
    nAlter > 0 =>
        /\ C1_Channel(alter_in[2], saturation, altered_value[2])
        /\ C1_Channel(alter_in[3], lightness, altered_value[3])
        /\ (saturation = None /\ lightness = None
               => altered_value = alter_in)

\* C1's case: a saturation delta rejected for leaving [0, 100] next to a
\* lightness delta that is applied
C1_Witness ==
    /\ nAlter > 0
    /\ saturation # None /\ lightness # None
    /\ ~InRange100(FAdd(alter_in[2], FromInt(saturation[1])))
    /\ altered_value[2] = alter_in[2]
    /\ altered_value[3] # alter_in[3]
    /\ altered_value[3] = FAdd(alter_in[3], FromInt(lightness[1]))

\* C2: after every alter call, whatever the deltas and whether they were
\* applied or rejected, the hue of the result is the hue of the input
C2_HueKept == nAlter > 0 => altered_value[1] = alter_in[1]

\* C2's case: a non-zero hue kept while both other channels change
C2_Witness ==
    /\ nAlter > 0
    /\ ~FIsZero(alter_in[1])
    /\ altered_value[1] = alter_in[1]
    /\ altered_value[2] # alter_in[2]
    /\ altered_value[3] # alter_in[3]

\* C3 as stated: for a six-digit hex input, with no adjustment, the string
\* hsl_to_hex(hex_to_hsl(x)) decodes to channels that each differ from the
\* channels of x by at most 1
C3_RoundTrip ==
    (pc = "core_done" /\ nAlter = 0 /\ ExactlySixHex(value)) =>
        /\ CanDecode(new_value)
        /\ \A k \in 1..3 :
              /\ ChannelOf(new_value, k) - ChannelOf(value, k) <= 1
              /\ ChannelOf(value, k) - ChannelOf(new_value, k) <= 1

\* C4 as stated: for a six-digit hex input and any deltas, every channel
\* _hsl_to_rgb returns in the pipeline is in 0..255 and the string of
\* hsl_to_hex is six lowercase hex digits
C4_ChannelsInRange ==
    (pc = "core_done" /\ ExactlySixHex(value)) =>
        /\ \A k \in 1..3 : rgb_out[k] >= 0 /\ rgb_out[k] <= 255
        /\ ExactlySixHex(new_value)

\* C5 as stated: the HSL value _rgb_to_hsl returns, and what any sequence
\* of alter calls makes of it, has its hue in [0, 360) and its saturation
\* and lightness in [0, 100]
C5_HslRanges ==
    CoreConverted =>
        /\ HueInRange(altered_value[1])
        /\ InRange100(altered_value[2])
        /\ InRange100(altered_value[3])

\* r = g = b in a six-digit hex input
IsGray(str) ==
    /\ ExactlySixHex(str)
    /\ ChannelOf(str, 1) = ChannelOf(str, 2)
    /\ ChannelOf(str, 2) = ChannelOf(str, 3)

\* the exact numbers 255 * |l| * 2^k and 100 * r * 2^k, for a float l >= 0
\* below 2^53 and k = -l.exp
Times255(l) == BMulD(l.man, 255)

HundredTimes(r, l) == BShl(BFromInt(100 * r), 0 - l.exp)

BDist(a, b) == IF BCmp(a, b) >= 0 THEN BSub(a, b) ELSE BSub(b, a)

\* l = 100 * r / 255 as real numbers
ExactlyLightness(l, r) == BCmp(Times255(l), HundredTimes(r, l)) = 0

\* |l - 100 * r / 255| <= 2^-52 * (100 * r / 255)
NearLightness(l, r) ==
    BCmp(BShl(BDist(Times255(l), HundredTimes(r, l)), 52),
         HundredTimes(r, l)) <= 0

\* C6, amended: for r = g = b, _rgb_to_hsl returns hue 0, saturation 0 and
\* as lightness the double (r / 255.0) * 100.0, which differs from
\* 100 * r / 255 by at most 2^-52 of it
C6_Achromatic ==
    (CoreConverted /\ IsGray(value)) =>
        /\ FIsZero(hsl_value[1])
        /\ FIsZero(hsl_value[2])
        /\ hsl_value[3]
              = FMul(FDiv(FromInt(ChannelOf(value, 1)), F255), F100)
        /\ NearLightness(hsl_value[3], ChannelOf(value, 1))

\* C6's case: a gray converted whose lightness is not 100 * r / 255
C6_Witness ==
    /\ pc = "core_hsl"
    /\ IsGray(value)
    /\ FIsZero(hsl_value[2])
    /\ ~ExactlyLightness(hsl_value[3], ChannelOf(value, 1))

\* C6 as stated: for r = g = b, hue 0, saturation 0 and lightness equal to
\* 100 * r / 255, be it the real number or the double nearest to it
C6_AsStated ==
    (CoreConverted /\ IsGray(value)) =>
        /\ FIsZero(hsl_value[1])
        /\ FIsZero(hsl_value[2])
        /\ \/ ExactlyLightness(hsl_value[3], ChannelOf(value, 1))
           \/ hsl_value[3] = FDiv(FromInt(100 * ChannelOf(value, 1)), F255)

\* an element whose value handleOption's pattern matches
Matches(attrib) ==
    Get(attrib, "value") # None /\ ReMatch(Get(attrib, "value"))

\* C7 as stated: when the run is over, every element with a matching value
\* has been converted exactly once, and its value is the deltas applied
\* once to its original value
C7_OncePerMatch ==
    pc = "done" =>
        \A i \in 1..Len(orig) :
            Matches(orig[i].attrib) =>
                /\ calls[i] = 1
                /\ options[i].attrib.value
                      = hsl_to_hex(alter(hex_to_hsl(orig[i].attrib.value),
                                         saturation, lightness))

\* C8 as stated: a value that is not exactly six hex digits is never
\* converted and nothing is substituted for it
C8_OnlySixHexConverted ==
    \A i \in 1..Len(orig) :
        (/\ Get(orig[i].attrib, "value") # None
         /\ ~ExactlySixHex(Get(orig[i].attrib, "value")))
            => calls[i] = 0 /\ options[i] = orig[i]

\* the doubles nearest to 1/3 and 2/3
F1_3 == [sign |-> 0, exp |-> -54, man |-> <<21845, 10922, 21845, 170>>]

F2_3 == [sign |-> 0, exp |-> -53, man |-> <<21845, 10922, 21845, 170>>]

\* the reference formula of C9: hueToChannel for a wrapped hShifted
RefHueReturn(v1, v2, hShifted) ==
    IF FLt(FMul(F6, hShifted), F1)
    THEN FAdd(v2, FMul(FMul(FSub(v1, v2), F6), hShifted))
    ELSE IF FLt(FMul(F2, hShifted), F1) THEN v1
    ELSE IF FLt(FMul(F3, hShifted), F2)
    THEN FAdd(v2, FMul(FMul(FSub(v1, v2), FSub(F2_3, hShifted)), F6))
    ELSE v2

RefWrap(vH) ==
    IF FLt(vH, FZero) THEN FAdd(vH, F1)
    ELSE IF FGt(vH, F1) THEN FSub(vH, F1)
    ELSE vH

RefHueToChannel(v1, v2, vH) ==
    The({RefHueReturn(v1, v2, hShifted) : hShifted \in {RefWrap(vH)}})

RefChannels(h, var1, var2) ==
    <<FCeil(FMul(F255, RefHueToChannel(var1, var2, FAdd(h, F1_3)))),
      FCeil(FMul(F255, RefHueToChannel(var1, var2, h))),
      FCeil(FMul(F255, RefHueToChannel(var1, var2, FSub(h, F1_3))))>>

RefVar1(s, l) ==
    IF FLt(l, F0_5) THEN FMul(l, FAdd(F1, s))
    ELSE FSub(FAdd(l, s), FMul(l, s))

RefUnit(h, s, l) ==
    The({RefChannels(h, var1, FSub(FMul(F2, l), var1)) :
            var1 \in {RefVar1(s, l)}})

RefHslToRgb(h, s, l) ==
    The({RefUnit(uh, us, ul) :
            uh \in {FDiv(h, F360)}, us \in {FDiv(s, F100)},
            ul \in {FDiv(l, F100)}})

\* C9 as stated: for a hue in [0, 360), a saturation in (0, 100] and a
\* lightness in [0, 100], _hsl_to_rgb returns exactly the triple of the
\* reference formula, whose constants are 1/3 and 2/3
C9_Reference ==
    (/\ pc = "core_done"
     /\ HueInRange(altered_value[1])
     /\ InRange100(altered_value[2]) /\ ~FIsZero(altered_value[2])
     /\ InRange100(altered_value[3]))
        => rgb_out = RefHslToRgb(altered_value[1], altered_value[2],
                                 altered_value[3])

\* C10: when the saturation given to _hsl_to_rgb is 0, from a gray or after
\* an adjustment, the three channels are equal, each the ceiling of
\* (l / 100) * 255, whatever the hue
C10_Achromatic ==
    (pc = "core_done" /\ FIsZero(altered_value[2])) =>
        \A k \in 1..3 :
            rgb_out[k] = FCeil(FMul(FDiv(altered_value[3], F100), F255))

\* C10's case: saturation brought to 0 by a delta, on a hue that is not 0
\* and a lightness that is neither 0 nor 100
C10_Witness ==
    /\ pc = "core_done"
    /\ nAlter = 1
    /\ ~FIsZero(hsl_value[2])
    /\ FIsZero(altered_value[2])
    /\ ~FIsZero(altered_value[1])
    /\ rgb_out[1] > 0 /\ rgb_out[1] < 255
    /\ rgb_out[1] = rgb_out[2] /\ rgb_out[2] = rgb_out[3]

====
